---- MODULE Spec2Model ----
(***************************************************************************)
(* Model of the RTX Remix Toolkit MCP server (mcp_server.py): the          *)
(* extension registry reader, the dependency analyzer, the extension       *)
(* scaffolder and the external-process runner, over a model of the         *)
(* directory source/extensions.                                            *)
(*                                                                         *)
(* Text is a sequence of tokens (a token is a chunk of characters; no      *)
(* token is a prefix of another, so str.startswith on the characters is    *)
(* the prefix test on the tokens).  A relative path is text whose          *)
(* components are separated by the token "/".                              *)
(***************************************************************************)
EXTENDS Integers, Sequences, FiniteSets, TLC

VARIABLES fs, testScripts, phase, exitCode, call, result,
          REPO_ROOT, EXTENSIONS_ROOT, registered, inflight

vars == <<fs, testScripts, phase, exitCode, call, result,
          REPO_ROOT, EXTENSIONS_ROOT, registered, inflight>>

----------------------------------------------------------------------------
(* Bounds of the model.                                                    *)

\* The scaffolder's filesystem steps 1..MaxFailStep are the ones the
\* environment may fail (disk full, permission denied).
MaxFailStep == 10

\* Exit codes of an external process range over 0..MaxExitCode.
MaxExitCode == 2

\* Number of dependency entries of a manifest found on disk at startup.
MaxDeps == 2

\* Number of lines the search utility prints.
MaxLines == 2

----------------------------------------------------------------------------
(* Text helpers.                                                           *)

\* str.startswith
StartsWith(s, p) == Len(p) <= Len(s) /\ SubSeq(s, 1, Len(p)) = p

\* Position of the first token t in s at or after i, or 0.
RECURSIVE IndexFrom(_, _, _)
IndexFrom(s, t, i) ==
    IF i > Len(s) THEN 0
    ELSE IF s[i] = t THEN i
    ELSE IndexFrom(s, t, i + 1)

\* str.split(sep): the pieces of s between the separator tokens.
RECURSIVE Split(_, _)
Split(s, sep) ==
    LET i == IndexFrom(s, sep, 1)
    IN  IF i = 0 THEN <<s>>
        ELSE <<SubSeq(s, 1, i - 1)>> \o Split(SubSeq(s, i + 1, Len(s)), sep)

\* sep.join(parts)
RECURSIVE Join(_, _)
Join(parts, sep) ==
    IF Len(parts) = 0 THEN <<>>
    ELSE IF Len(parts) = 1 THEN parts[1]
    ELSE parts[1] \o <<sep>> \o Join(Tail(parts), sep)

\* pathlib's "/" on relative paths; the empty path is the extension directory.
PathJoin(p, q) ==
    IF p = <<>> THEN q
    ELSE IF q = <<>> THEN p
    ELSE p \o <<"/">> \o q

RECURSIVE LastIndexOf(_, _, _)
LastIndexOf(s, t, i) ==
    IF i = 0 THEN 0
    ELSE IF s[i] = t THEN i
    ELSE LastIndexOf(s, t, i - 1)

\* Path.parent of a relative path
Parent(p) ==
    LET i == LastIndexOf(p, "/", Len(p))
    IN  IF i = 0 THEN <<>> ELSE SubSeq(p, 1, i - 1)

Range(s) == {s[i] : i \in 1..Len(s)}

\* The sequences over the set S that enumerate it once each.
Orderings(S) ==
    {s \in [1..Cardinality(S) -> S] : Range(s) = S}

----------------------------------------------------------------------------
(* TOML documents.  A manifest on disk is a sequence of lines; tomllib     *)
(* turns it into a dict or raises TOMLDecodeError.  A dict is a sequence   *)
(* of [k, v] entries with distinct keys, in insertion order.               *)

VStr(s)       == [t |-> "str",    s |-> s,    kv |-> <<>>, items |-> <<>>]
VTable(kv)    == [t |-> "table",  s |-> <<>>, kv |-> kv,   items |-> <<>>]
VArray(items) == [t |-> "array",  s |-> <<>>, kv |-> <<>>, items |-> items]
VTables(items) == [t |-> "tables", s |-> <<>>, kv |-> <<>>, items |-> items]

\* What is written to the right of "=": a basic string (the text between
\* the two quotes written around it), the inline table {} or an array of
\* string literals.
RawString(text) == [r |-> "string", text |-> text, items |-> <<>>]
RawInline       == [r |-> "inline", text |-> <<>>, items |-> <<>>]
RawArray(items) == [r |-> "array",  text |-> <<>>, items |-> items]

LTable(key)    == [l |-> "table",    key |-> key,  raw |-> RawInline]
LArrTable(key) == [l |-> "arrtable", key |-> key,  raw |-> RawInline]
LKV(key, raw)  == [l |-> "kv",       key |-> key,  raw |-> raw]
LJunk          == [l |-> "junk",     key |-> <<>>, raw |-> RawInline]

\* The quote character.
Quote == "\""

\* key in dict
HasKey(kv, k) == \E i \in 1..Len(kv) : kv[i].k = k

\* dict.get(k, default)
Get(kv, k, default) ==
    IF HasKey(kv, k)
    THEN kv[CHOOSE i \in 1..Len(kv) : kv[i].k = k].v
    ELSE default

\* dict[k] = v for a key that is present
Put(kv, k, v) == [i \in 1..Len(kv) |-> IF kv[i].k = k THEN [k |-> k, v |-> v] ELSE kv[i]]

\* list(dict.keys())
Keys(kv) == [i \in 1..Len(kv) |-> kv[i].k]

\* A value as tomllib parses it.  A basic string ends at the first quote:
\* text that holds a quote leaves characters behind the closing quote (or
\* opens a multi-line string that is never closed), which is an error for
\* every text with fewer than four quotes.
ParseValue(raw) ==
    IF raw.r = "string"
    THEN IF Quote \in Range(raw.text)
         THEN [ok |-> FALSE, v |-> VStr(<<>>)]
         ELSE [ok |-> TRUE, v |-> VStr(raw.text)]
    ELSE IF raw.r = "inline"
    THEN [ok |-> TRUE, v |-> VTable(<<>>)]
    ELSE [ok |-> TRUE, v |-> VArray([i \in 1..Len(raw.items) |-> VStr(raw.items[i])])]

ParseFail(st) == [ok |-> FALSE, cur |-> st.cur, top |-> st.top]

\* The table that key = value lines currently go to.
CurrentTable(st) ==
    IF st.cur = <<>> THEN st.top
    ELSE LET v == Get(st.top, st.cur, VTable(<<>>))
         IN  IF v.t = "tables" THEN v.items[Len(v.items)].kv ELSE v.kv

WithCurrentTable(st, kv) ==
    IF st.cur = <<>> THEN [st EXCEPT !.top = kv]
    ELSE LET v == Get(st.top, st.cur, VTable(<<>>))
         IN  IF v.t = "tables"
             THEN [st EXCEPT !.top = Put(st.top, st.cur,
                       VTables([v.items EXCEPT ![Len(v.items)] = VTable(kv)]))]
             ELSE [st EXCEPT !.top = Put(st.top, st.cur, VTable(kv))]

\* One line of the document: a table header may not name a key that is
\* already defined, an array-of-tables header may only extend an array of
\* tables, and a key may not be assigned twice in one table.
ParseLine(st, line) ==
    IF ~st.ok THEN st
    ELSE IF line.l = "junk" THEN ParseFail(st)
    ELSE IF line.l = "table"
    THEN IF HasKey(st.top, line.key) THEN ParseFail(st)
         ELSE [ok |-> TRUE, cur |-> line.key,
               top |-> Append(st.top, [k |-> line.key, v |-> VTable(<<>>)])]
    ELSE IF line.l = "arrtable"
    THEN IF ~HasKey(st.top, line.key)
         THEN [ok |-> TRUE, cur |-> line.key,
               top |-> Append(st.top, [k |-> line.key, v |-> VTables(<<VTable(<<>>)>>)])]
         ELSE LET v == Get(st.top, line.key, VTable(<<>>))
              IN  IF v.t # "tables" THEN ParseFail(st)
                  ELSE [ok |-> TRUE, cur |-> line.key,
                        top |-> Put(st.top, line.key,
                                    VTables(Append(v.items, VTable(<<>>))))]
    ELSE LET pv == ParseValue(line.raw)
             tbl == CurrentTable(st)
         IN  IF ~pv.ok \/ HasKey(tbl, line.key) THEN ParseFail(st)
             ELSE WithCurrentTable(st, Append(tbl, [k |-> line.key, v |-> pv.v]))

RECURSIVE ParseLines(_, _, _)
ParseLines(st, lines, i) ==
    IF i > Len(lines) THEN st
    ELSE ParseLines(ParseLine(st, lines[i]), lines, i + 1)

\* tomllib.load(f): [ok, top]; ok = FALSE stands for TOMLDecodeError.
tomllib_load(lines) ==
    LET st == ParseLines([ok |-> TRUE, cur |-> <<>>, top |-> <<>>], lines, 1)
    IN  [ok |-> st.ok, top |-> st.top]

----------------------------------------------------------------------------
(* The directory EXTENSIONS_ROOT.  fs maps an entry name to what is there: *)
(* nothing, a regular file, or a directory with its subdirectories and     *)
(* files (paths relative to it) and the lines of config/extension.toml.    *)

Absent      == [kind |-> "absent", dirs |-> {}, files |-> {}, manifest |-> <<>>]
RegularFile == [kind |-> "file",   dirs |-> {}, files |-> {}, manifest |-> <<>>]
Dir(dirs, files, manifest) ==
    [kind |-> "dir", dirs |-> dirs, files |-> files, manifest |-> manifest]

\* ext_dir / "config" / "extension.toml"
ConfigPath == <<"config", "/", "extension.toml">>

\* Path.exists(); the empty path is the entry itself.
Exists(e, p) ==
    IF p = <<>> THEN e.kind # "absent"
    ELSE e.kind = "dir" /\ p \in (e.dirs \cup e.files)

\* Path.is_dir()
IsDir(e, p) ==
    IF p = <<>> THEN e.kind = "dir"
    ELSE e.kind = "dir" /\ p \in e.dirs

\* The names of the immediate children of the directory.
Children(e) == {p \in e.dirs \cup e.files : "/" \notin Range(p)}

\* Path.rglob("*.py") below the directory p, relative to p.
PySuffix == {"__init__.py", "extension.py", "test_extension.py"}

rglob_py(e, p) ==
    IF p = <<>> THEN {f \in e.files : f[Len(f)] \in PySuffix}
    ELSE {SubSeq(f, Len(p) + 2, Len(f)) :
            f \in {g \in e.files : StartsWith(g, p \o <<"/">>) /\ g[Len(g)] \in PySuffix}}

\* str(EXTENSIONS_ROOT / name)
PathStr(name) == <<"source/extensions", "/">> \o name

----------------------------------------------------------------------------
(* Filesystem steps of the scaffolder.                                     *)

MkdirParents(p)  == [op |-> "mkdir_parents",  path |-> p, content |-> <<>>]
Mkdir(p)         == [op |-> "mkdir",          path |-> p, content |-> <<>>]
MkdirExistOk(p)  == [op |-> "mkdir_exist_ok", path |-> p, content |-> <<>>]
Touch(p)         == [op |-> "touch",          path |-> p, content |-> <<>>]
WriteFile(p, c)  == [op |-> "write",          path |-> p, content |-> c]

StepOk(e)        == [ok |-> TRUE,  e |-> e, exc |-> "none"]
StepRaise(e, x)  == [ok |-> FALSE, e |-> e, exc |-> x]

AddDir(e, p) ==
    IF p = <<>> THEN Dir({}, {}, <<>>)
    ELSE [e EXCEPT !.dirs = @ \cup {p}]

\* Variant: the extension directory is made with exist_ok=True.
ApplyStep_ExistOk(e, step) ==
    LET p == step.path IN
    IF step.op = "mkdir_parents" /\ IsDir(e, p) THEN StepOk(e)
    ELSE IF step.op \in {"mkdir", "mkdir_parents"}
    THEN IF Exists(e, p) THEN StepRaise(e, "FileExistsError")
         ELSE IF p # <<>> /\ ~IsDir(e, Parent(p)) THEN StepRaise(e, "FileNotFoundError")
         ELSE StepOk(AddDir(e, p))
    ELSE IF step.op = "mkdir_exist_ok"
    THEN IF IsDir(e, p) THEN StepOk(e)
         ELSE IF Exists(e, p) THEN StepRaise(e, "FileExistsError")
         ELSE IF ~IsDir(e, Parent(p)) THEN StepRaise(e, "FileNotFoundError")
         ELSE StepOk(AddDir(e, p))
    ELSE IF step.op = "touch"
    THEN IF ~IsDir(e, Parent(p)) THEN StepRaise(e, "FileNotFoundError")
         ELSE IF IsDir(e, p) THEN StepOk(e)
         ELSE StepOk([e EXCEPT !.files = @ \cup {p}])
    ELSE IF ~IsDir(e, Parent(p)) THEN StepRaise(e, "FileNotFoundError")
         ELSE IF IsDir(e, p) THEN StepRaise(e, "IsADirectoryError")
         ELSE StepOk([e EXCEPT !.files = @ \cup {p},
                               !.manifest = IF p = ConfigPath THEN step.content ELSE @])

\* One pathlib / open() call on the entry e.
ApplyStep(e, step) ==
    LET p == step.path IN
    IF step.op \in {"mkdir", "mkdir_parents"}
    THEN IF Exists(e, p) THEN StepRaise(e, "FileExistsError")
         ELSE IF p # <<>> /\ ~IsDir(e, Parent(p)) THEN StepRaise(e, "FileNotFoundError")
         ELSE StepOk(AddDir(e, p))
    ELSE IF step.op = "mkdir_exist_ok"
    THEN IF IsDir(e, p) THEN StepOk(e)
         ELSE IF Exists(e, p) THEN StepRaise(e, "FileExistsError")
         ELSE IF ~IsDir(e, Parent(p)) THEN StepRaise(e, "FileNotFoundError")
         ELSE StepOk(AddDir(e, p))
    ELSE IF step.op = "touch"
    THEN IF ~IsDir(e, Parent(p)) THEN StepRaise(e, "FileNotFoundError")
         ELSE IF IsDir(e, p) THEN StepOk(e)
         ELSE StepOk([e EXCEPT !.files = @ \cup {p}])
    ELSE IF ~IsDir(e, Parent(p)) THEN StepRaise(e, "FileNotFoundError")
         ELSE IF IsDir(e, p) THEN StepRaise(e, "IsADirectoryError")
         ELSE StepOk([e EXCEPT !.files = @ \cup {p},
                               !.manifest = IF p = ConfigPath THEN step.content ELSE @])

\* The steps in order; step number failAt (if any) is failed by the
\* environment before it has an effect, and the first exception ends the run.
RECURSIVE RunSteps(_, _, _, _)
RunSteps(e, steps, i, failAt) ==
    IF i > Len(steps) THEN StepOk(e)
    ELSE IF i = failAt THEN StepRaise(e, "OSError")
    ELSE LET r == ApplyStep(e, steps[i])
         IN  IF r.ok THEN RunSteps(r.e, steps, i + 1, failAt) ELSE r

----------------------------------------------------------------------------
(* create_extension_template: what it writes.                              *)

\* code_path after the first i namespace parts
RECURSIVE CodePath(_, _)
CodePath(parts, i) ==
    IF i = 0 THEN <<>> ELSE PathJoin(CodePath(parts, i - 1), parts[i])

\* for part in namespace_parts: mkdir(exist_ok=True); touch __init__.py
RECURSIVE NamespaceSteps(_, _)
NamespaceSteps(parts, i) ==
    IF i > Len(parts) THEN <<>>
    ELSE <<MkdirExistOk(CodePath(parts, i)),
           Touch(PathJoin(CodePath(parts, i), <<"__init__.py">>))>>
         \o NamespaceSteps(parts, i + 1)

\* toml_content
TomlContent(extension_name, category, description, include_tests, include_ui) ==
    << LTable(<<"package">>),
       LKV(<<"name">>, RawString(extension_name)),
       LKV(<<"version">>, RawString(<<"1.0.0">>)),
       LKV(<<"description">>, RawString(description)),
       LKV(<<"authors">>, RawArray(<< <<"RTX Remix Team">> >>)),
       LKV(<<"repository">>, RawString(<<"https://github.com/NVIDIAGameWorks/toolkit-remix">>)),
       LKV(<<"category">>, RawString(<<"extension">>)),
       LKV(<<"keywords">>, RawArray(<< <<"rtx">>, <<"remix">>, <<"omniverse">> >>)),
       LTable(<<"dependencies">>),
       LKV(<<"omni", ".", "kit", ".", "usd">>, RawInline),
       LKV(<<"omni", ".", "ui">>, RawInline) >>
    \o (IF category = <<"lightspeed">>
        THEN << LKV(<<"lightspeed", ".", "common">>, RawInline) >>
        ELSE << LKV(<<"omni", ".", "flux", ".", "utils", ".", "common">>, RawInline) >>)
    \o (IF include_ui THEN << LKV(<<"omni", ".", "ui">>, RawInline) >> ELSE <<>>)
    \o (IF include_tests
        THEN << LArrTable(<<"test">>),
                LKV(<<"dependencies">>, RawArray(<< <<"omni", ".", "kit", ".", "test">> >>)) >>
        ELSE <<>>)

\* The filesystem calls of the try block, in program order.
CreateSteps(extension_name, category, description, include_tests, include_ui) ==
    LET parts == Split(extension_name, ".")
        module_path == CodePath(parts, Len(parts))
    IN  << MkdirParents(<<>>),
           Mkdir(<<"config">>),
           Mkdir(<<"data">>),
           Mkdir(<<"docs">>) >>
        \o NamespaceSteps(parts, 1)
        \o << WriteFile(ConfigPath,
                TomlContent(extension_name, category, description, include_tests, include_ui)),
              WriteFile(PathJoin(module_path, <<"extension.py">>), <<>>) >>
        \o (IF include_tests
            THEN << Mkdir(<<"tests">>),
                    Mkdir(<<"tests", "/", "unit">>),
                    Mkdir(<<"tests", "/", "e2e">>),
                    WriteFile(<<"tests", "/", "unit", "/", "test_extension.py">>, <<>>) >>
            ELSE <<>>)
        \o << WriteFile(<<"docs", "/", "README.md">>, <<>>),
              WriteFile(<<"docs", "/", "CHANGELOG.md">>, <<>>),
              WriteFile(<<"premake5.lua">>, <<>>) >>

\* The "files_created" list of the success result.
FilesCreated(extension_name, include_tests) ==
    << ConfigPath,
       Join(Split(extension_name, "."), "/") \o <<"/", "extension.py">>,
       <<"docs", "/", "README.md">>,
       <<"docs", "/", "CHANGELOG.md">>,
       <<"premake5.lua">> >>
    \o (IF include_tests
        THEN << <<"tests", "/", "unit", "/", "test_extension.py">> >>
        ELSE <<>>)

----------------------------------------------------------------------------
(* Results of a tool call: the dict or list it returns, or the exception   *)
(* that leaves the function.                                               *)

RDict(v)  == [kind |-> "dict",   value |-> v]
RList(v)  == [kind |-> "list",   value |-> v]
Raised(x) == [kind |-> "raised", value |-> x]
NoResult  == [kind |-> "none",   value |-> <<>>]

ErrorDict(msg) == RDict([error |-> msg])

IsError(r) == r.kind = "dict" /\ "error" \in DOMAIN r.value

\* category: Optional[str] = None; None and "" are both falsy.
None == <<>>

\* str.lower() on the category texts the model passes.
Lower(s) == [i \in 1..Len(s) |-> IF s[i] = "Flux" THEN "flux" ELSE s[i]]

----------------------------------------------------------------------------
(* Extension Registry Reader.                                              *)

\* metadata of list_extensions: {} unless the manifest exists and parses.
ListMetadata(e) ==
    IF Exists(e, ConfigPath)
    THEN LET config == tomllib_load(e.manifest)
         IN  IF config.ok THEN Get(config.top, <<"package">>, VTable(<<>>))
             ELSE VTable(<<>>)
    ELSE VTable(<<>>)

\* The category filter of the listing loop: TRUE when the directory is kept.
PassesFilter(ext_name, category) ==
    IF category # None /\ category # <<>>
    THEN /\ ~(Lower(category) = <<"lightspeed">> /\ ~StartsWith(ext_name, <<"lightspeed">>))
         /\ ~(Lower(category) = <<"flux">> /\ ~StartsWith(ext_name, <<"omni", ".", "flux">>))
    ELSE TRUE

Descriptor(ext_name, e, metadata) ==
    [ name        |-> ext_name,
      path        |-> PathStr(ext_name),
      category    |-> IF StartsWith(ext_name, <<"lightspeed">>)
                      THEN <<"lightspeed">> ELSE <<"flux">>,
      description |-> Get(metadata.kv, <<"description">>, VStr(<<>>)),
      version     |-> Get(metadata.kv, <<"version">>, VStr(<<>>)),
      has_tests   |-> Exists(e, <<"tests">>),
      has_docs    |-> Exists(e, <<"docs">>) ]

\* list_extensions(category) when iterdir() yields the entries in `order`.
\* metadata.get on a value that is no dict raises AttributeError outside
\* the try block.
ListExtensions(files, category, order) ==
    LET Keep(n) == IsDir(files[n], <<>>) /\ PassesFilter(n, category)
        kept == SelectSeq(order, Keep)
    IN  IF \E i \in 1..Len(kept) : ListMetadata(files[kept[i]]).t # "table"
        THEN Raised("AttributeError")
        ELSE RList([i \in 1..Len(kept) |->
                     Descriptor(kept[i], files[kept[i]], ListMetadata(files[kept[i]]))])

\* Variant: the manifest is loaded outside any try block, so that a parse
\* failure leaves analyze_extension as an exception.
AnalyzeExtension_ParseErrorEscapes(files, extension_name) ==
    LET e == files[extension_name]
        config == tomllib_load(e.manifest)
        has_config == Exists(e, ConfigPath)
        deps == Get(config.top, <<"dependencies">>, VTable(<<>>))
        base ==
          [ name         |-> extension_name,
            path         |-> PathStr(extension_name),
            category     |-> IF StartsWith(extension_name, <<"lightspeed">>)
                             THEN <<"lightspeed">> ELSE <<"flux">>,
            structure    |-> [p \in Children(e) |->
                                IF p \in e.dirs THEN "directory" ELSE "file"],
            dependencies |-> IF has_config /\ config.ok /\ deps.t = "table"
                             THEN Keys(deps.kv) ELSE <<>>,
            metadata     |-> IF has_config /\ config.ok
                             THEN Get(config.top, <<"package">>, VTable(<<>>))
                             ELSE VTable(<<>>),
            tests        |-> IF Exists(e, <<"tests">>)
                             THEN [has_tests |-> TRUE,
                                   test_files |-> rglob_py(e, <<"tests">>)]
                             ELSE [has_tests |-> FALSE],
            files        |-> rglob_py(e, <<>>) ]
    IN  IF ~Exists(e, <<>>)
        THEN ErrorDict(<<"Extension '">> \o extension_name \o <<"' not found">>)
        ELSE IF ~IsDir(e, <<>>)
        THEN Raised("NotADirectoryError")
        ELSE IF has_config /\ ~config.ok
        THEN Raised("TOMLDecodeError")
        ELSE IF has_config /\ deps.t # "table"
        THEN RDict([config_error |-> "AttributeError"] @@ base)
        ELSE RDict(base)

\* analyze_extension(extension_name)
AnalyzeExtension(files, extension_name) ==
    LET e == files[extension_name]
        config == tomllib_load(e.manifest)
        has_config == Exists(e, ConfigPath)
        deps == Get(config.top, <<"dependencies">>, VTable(<<>>))
        base ==
          [ name         |-> extension_name,
            path         |-> PathStr(extension_name),
            category     |-> IF StartsWith(extension_name, <<"lightspeed">>)
                             THEN <<"lightspeed">> ELSE <<"flux">>,
            structure    |-> [p \in Children(e) |->
                                IF p \in e.dirs THEN "directory" ELSE "file"],
            dependencies |-> IF has_config /\ config.ok /\ deps.t = "table"
                             THEN Keys(deps.kv) ELSE <<>>,
            metadata     |-> IF has_config /\ config.ok
                             THEN Get(config.top, <<"package">>, VTable(<<>>))
                             ELSE VTable(<<>>),
            tests        |-> IF Exists(e, <<"tests">>)
                             THEN [has_tests |-> TRUE,
                                   test_files |-> rglob_py(e, <<"tests">>)]
                             ELSE [has_tests |-> FALSE],
            files        |-> rglob_py(e, <<>>) ]
    IN  IF ~Exists(e, <<>>)
        THEN ErrorDict(<<"Extension '">> \o extension_name \o <<"' not found">>)
        ELSE IF ~IsDir(e, <<>>)
        THEN Raised("NotADirectoryError")
        ELSE IF has_config /\ ~config.ok
        THEN RDict([config_error |-> "TOMLDecodeError"] @@ base)
        ELSE IF has_config /\ deps.t # "table"
        THEN RDict([config_error |-> "AttributeError"] @@ base)
        ELSE RDict(base)

----------------------------------------------------------------------------
(* Dependency Analyzer.                                                    *)

\* Variant: the lightspeed bucket tests the prefix without its dot, as the
\* listing filter does.
DepAnalysis_LoosePrefix(dependencies) ==
    LET keys == Keys(dependencies)
        IsLightspeed(d) == StartsWith(d, <<"lightspeed", ".">>)
        IsFlux(d)       == StartsWith(d, <<"omni", ".", "flux", ".">>)
        IsKit(d)        == StartsWith(d, <<"omni", ".", "kit", ".">>)
        IsOther(d)      == ~(IsLightspeed(d) \/ IsFlux(d) \/ IsKit(d))
        IsLightspeedLoose(d) == StartsWith(d, <<"lightspeed">>)
    IN  [ direct_dependencies |-> keys,
          lightspeed_deps     |-> SelectSeq(keys, IsLightspeedLoose),
          flux_deps           |-> SelectSeq(keys, IsFlux),
          kit_deps            |-> SelectSeq(keys, IsKit),
          other_deps          |-> SelectSeq(keys, IsOther),
          total_count         |-> Len(dependencies) ]

\* dep_analysis
DepAnalysis(dependencies) ==
    LET keys == Keys(dependencies)
        IsLightspeed(d) == StartsWith(d, <<"lightspeed", ".">>)
        IsFlux(d)       == StartsWith(d, <<"omni", ".", "flux", ".">>)
        IsKit(d)        == StartsWith(d, <<"omni", ".", "kit", ".">>)
        IsOther(d)      == ~(IsLightspeed(d) \/ IsFlux(d) \/ IsKit(d))
    IN  [ direct_dependencies |-> keys,
          lightspeed_deps     |-> SelectSeq(keys, IsLightspeed),
          flux_deps           |-> SelectSeq(keys, IsFlux),
          kit_deps            |-> SelectSeq(keys, IsKit),
          other_deps          |-> SelectSeq(keys, IsOther),
          total_count         |-> Len(dependencies) ]

\* get_extension_dependencies(extension_name)
GetExtensionDependencies(files, extension_name) ==
    LET e == files[extension_name]
        config == tomllib_load(e.manifest)
        dependencies == Get(config.top, <<"dependencies">>, VTable(<<>>))
    IN  IF ~Exists(e, <<>>)
        THEN ErrorDict(<<"Extension '">> \o extension_name \o <<"' not found">>)
        ELSE IF ~Exists(e, ConfigPath)
        THEN ErrorDict(<<"No extension.toml found for '">> \o extension_name \o <<"'">>)
        ELSE IF ~config.ok
        THEN ErrorDict(<<"Failed to analyze dependencies: ", "TOMLDecodeError">>)
        ELSE IF dependencies.t # "table"
        THEN ErrorDict(<<"Failed to analyze dependencies: ", "AttributeError">>)
        ELSE RDict([ extension        |-> extension_name,
                     analysis         |-> DepAnalysis(dependencies.kv),
                     raw_dependencies |-> dependencies.kv ])

----------------------------------------------------------------------------
(* Extension Scaffolder.                                                   *)

\* Variant: the target's existence is tested before category and prefix.
ValidationError_ExistsFirst(e, extension_name, category) ==
    IF Exists(e, <<>>)
    THEN <<"Extension '">> \o extension_name \o <<"' already exists">>
    ELSE IF category \notin {<<"lightspeed">>, <<"flux">>}
    THEN <<"Category must be 'lightspeed' or 'flux'">>
    ELSE IF category = <<"lightspeed">> /\ ~StartsWith(extension_name, <<"lightspeed", ".">>)
    THEN <<"Lightspeed extensions must start with 'lightspeed.'">>
    ELSE IF category = <<"flux">> /\ ~StartsWith(extension_name, <<"omni", ".", "flux", ".">>)
    THEN <<"Flux extensions must start with 'omni.flux.'">>
    ELSE <<>>

\* The validation before the try block: the error message, or <<>>.
ValidationError(e, extension_name, category) ==
    IF category \notin {<<"lightspeed">>, <<"flux">>}
    THEN <<"Category must be 'lightspeed' or 'flux'">>
    ELSE IF category = <<"lightspeed">> /\ ~StartsWith(extension_name, <<"lightspeed", ".">>)
    THEN <<"Lightspeed extensions must start with 'lightspeed.'">>
    ELSE IF category = <<"flux">> /\ ~StartsWith(extension_name, <<"omni", ".", "flux", ".">>)
    THEN <<"Flux extensions must start with 'omni.flux.'">>
    ELSE IF Exists(e, <<>>)
    THEN <<"Extension '">> \o extension_name \o <<"' already exists">>
    ELSE <<>>

\* The try block: the entry afterwards and the result.  The except clause
\* only builds the error result.
CreateTree(e, extension_name, category, description, include_tests, include_ui, failAt) ==
    LET r == RunSteps(e, CreateSteps(extension_name, category, description,
                                     include_tests, include_ui), 1, failAt)
    IN  IF r.ok
        THEN [ e |-> r.e,
               result |-> RDict([ success |-> TRUE,
                                  message |-> <<"Extension '">> \o extension_name
                                              \o <<"' created successfully">>,
                                  path |-> PathStr(extension_name),
                                  files_created |-> FilesCreated(extension_name, include_tests) ]) ]
        ELSE [ e |-> r.e,
               result |-> ErrorDict(<<"Failed to create extension: ", r.exc>>) ]

\* Variant: the extension directory is made before the request is validated.
CreateExtensionTemplate_MkdirFirst(e, extension_name, category, description, include_tests, include_ui, failAt) ==
    LET err == ValidationError(e, extension_name, category)
    IN  IF err # <<>>
        THEN [e |-> ApplyStep(e, MkdirParents(<<>>)).e, result |-> ErrorDict(err)]
        ELSE CreateTree(e, extension_name, category, description,
                        include_tests, include_ui, failAt)

\* Variant: no existence check, and every mkdir of the try block tolerates
\* an existing directory.
CreateExtensionTemplate_Overwrite(e, extension_name, category, description, include_tests, include_ui, failAt) ==
    LET err == ValidationError(Absent, extension_name, category)
        steps == CreateSteps(extension_name, category, description, include_tests, include_ui)
        tolerant == [i \in 1..Len(steps) |->
                       IF steps[i].op \in {"mkdir", "mkdir_parents"}
                       THEN MkdirExistOk(steps[i].path) ELSE steps[i]]
        r == RunSteps(e, tolerant, 1, failAt)
    IN  IF err # <<>>
        THEN [e |-> e, result |-> ErrorDict(err)]
        ELSE IF r.ok
        THEN [ e |-> r.e,
               result |-> RDict([ success |-> TRUE,
                                  message |-> <<"Extension '">> \o extension_name
                                              \o <<"' created successfully">>,
                                  path |-> PathStr(extension_name),
                                  files_created |-> FilesCreated(extension_name, include_tests) ]) ]
        ELSE [ e |-> r.e,
               result |-> ErrorDict(<<"Failed to create extension: ", r.exc>>) ]

\* create_extension_template(...) on the entry e of its name
CreateExtensionTemplate(e, extension_name, category, description, include_tests, include_ui, failAt) ==
    LET err == ValidationError(e, extension_name, category)
    IN  IF err # <<>>
        THEN [e |-> e, result |-> ErrorDict(err)]
        ELSE CreateTree(e, extension_name, category, description,
                        include_tests, include_ui, failAt)

----------------------------------------------------------------------------
(* External-Process Runner.  What subprocess.run does is an input: the     *)
(* process exits with a return code and its captured output, the timeout   *)
(* expires, or the process cannot be started.                              *)

Exited(rc, out, err) == [o |-> "exit", returncode |-> rc, stdout |-> out, stderr |-> err, exc |-> "none"]
TimedOut             == [o |-> "timeout", returncode |-> 0, stdout |-> <<>>, stderr |-> <<>>, exc |-> "TimeoutExpired"]
NotStarted(x)        == [o |-> "raise", returncode |-> 0, stdout |-> <<>>, stderr |-> <<>>, exc |-> x]

ProcessOutcomes ==
    {Exited(rc, <<"out">>, err) : rc \in 0..MaxExitCode, err \in {<<>>, <<"err">>}}
    \cup {TimedOut, NotStarted("FileNotFoundError"), NotStarted("PermissionError")}

\* Variant: TimeoutExpired is handled by the general except clause.
RunProcess_TimeoutAsFailure(outcome, command, timeout_message, failure_prefix) ==
    IF outcome.o = "exit"
    THEN RDict([ success    |-> outcome.returncode = 0,
                 returncode |-> outcome.returncode,
                 stdout     |-> outcome.stdout,
                 stderr     |-> outcome.stderr,
                 command    |-> command ])
    ELSE ErrorDict(<<failure_prefix, outcome.exc>>)

\* The body shared by the four runner tools: subprocess.run and the two
\* except clauses.
RunProcess(outcome, command, timeout_message, failure_prefix) ==
    IF outcome.o = "exit"
    THEN RDict([ success    |-> outcome.returncode = 0,
                 returncode |-> outcome.returncode,
                 stdout     |-> outcome.stdout,
                 stderr     |-> outcome.stderr,
                 command    |-> command ])
    ELSE IF outcome.o = "timeout"
    THEN ErrorDict(<<timeout_message>>)
    ELSE ErrorDict(<<failure_prefix, outcome.exc>>)

\* run_build(config)
RunBuild(config, outcome) ==
    LET flag == IF config = <<"release">> THEN "-r" ELSE "-d"
    IN  RunProcess(outcome, <<"./build.sh ", flag>>,
                   "Build timed out after 5 minutes", "Build failed: ")

\* test_script of run_tests
TestScript(extension_name) ==
    <<"_build/windows-x86_64/release/tests-">> \o extension_name \o <<".sh">>

\* Variant: the command is built without looking for the test script.
TestCmd_NoScriptCheck(scripts, extension_name, test_type) ==
    IF extension_name # None
    THEN << TestScript(extension_name) >>
         \o (IF test_type \in {<<"unit">>, <<"e2e">>}
             THEN << <<"--/exts/omni.kit.test/runTestsFilter='">> \o extension_name
                     \o <<".*.tests.">> \o test_type \o <<".*'">> >>
             ELSE <<>>)
    ELSE << <<"repo.sh">>, <<"test">> >>

\* cmd of run_tests, or <<>> when the test script is missing
TestCmd(scripts, extension_name, test_type) ==
    IF extension_name # None
    THEN IF extension_name \notin scripts THEN <<>>
         ELSE << TestScript(extension_name) >>
              \o (IF test_type \in {<<"unit">>, <<"e2e">>}
                  THEN << <<"--/exts/omni.kit.test/runTestsFilter='">> \o extension_name
                          \o <<".*.tests.">> \o test_type \o <<".*'">> >>
                  ELSE <<>>)
    ELSE << <<"repo.sh">>, <<"test">> >>

\* run_tests(extension_name, test_type)
RunTests(scripts, extension_name, test_type, outcome) ==
    LET cmd == TestCmd(scripts, extension_name, test_type)
    IN  IF cmd = <<>>
        THEN ErrorDict(<<"Test script for '">> \o extension_name \o <<"' not found">>)
        ELSE RunProcess(outcome, Join(cmd, " "),
                        "Tests timed out after 10 minutes", "Test execution failed: ")

\* format_code()
FormatCode(outcome) ==
    RunProcess(outcome, <<"./format_code.sh">>,
               "Code formatting timed out after 2 minutes", "Code formatting failed: ")

\* lint_code()
LintCode(outcome) ==
    RunProcess(outcome, <<"./lint_code.sh">>,
               "Code linting timed out after 2 minutes", "Code linting failed: ")

----------------------------------------------------------------------------
(* Code search: one line of "rg --json" output per event.  A line is what  *)
(* json.loads and the dictionary lookups of search_code can tell apart:    *)
(* whether it is JSON at all, whether the value is an object, its "type",  *)
(* which keys of a match are present and how many submatches it has.       *)

MatchKeys == {"path", "line_number", "submatches", "lines"}

Line(json, type, present, submatches, file) ==
    [json |-> json, type |-> type, present |-> present,
     submatches |-> submatches, file |-> file]

BlankLine         == Line("blank", "none", {}, 0, "none")
InvalidJsonLine   == Line("invalid", "none", {}, 0, "none")
ScalarLine        == Line("scalar", "none", {}, 0, "none")
BeginLine         == Line("object", "begin", {"path"}, 0, "a.py")
MatchLine(file)   == Line("object", "match", MatchKeys, 1, file)
MissingKeyLine    == Line("object", "match", MatchKeys \ {"line_number"}, 1, "a.py")
NoSubmatchesLine  == Line("object", "match", MatchKeys, 0, "a.py")

OutputLines ==
    { BlankLine, InvalidJsonLine, ScalarLine, BeginLine, MatchLine("a.py"),
      MatchLine("b.py"), MissingKeyLine, NoSubmatchesLine }

\* The record search_code appends for a match line.
MatchRecord(line) ==
    [file |-> line.file, line |-> "line_number", column |-> "start",
     content |-> "lines.text", match |-> "match.text"]

Skip        == [o |-> "skip", exc |-> "none", rec |-> <<>>]
Appended(rec) == [o |-> "append", exc |-> "none", rec |-> <<rec>>]
Escapes(x)  == [o |-> "raise", exc |-> x, rec |-> <<>>]

\* Variant: the inner except clause catches json.JSONDecodeError only, so
\* that a KeyError reaches the outer except clause.
ParseSearchLine_KeyErrorEscapes(line) ==
    IF line.json = "blank" THEN Skip
    ELSE IF line.json = "invalid" THEN Skip
    ELSE IF line.json = "scalar" THEN Escapes("AttributeError")
    ELSE IF line.type # "match" THEN Skip
    ELSE IF "path" \notin line.present THEN Escapes("KeyError")
    ELSE IF "line_number" \notin line.present THEN Escapes("KeyError")
    ELSE IF "submatches" \notin line.present THEN Escapes("KeyError")
    ELSE IF line.submatches = 0 THEN Escapes("IndexError")
    ELSE IF "lines" \notin line.present THEN Escapes("KeyError")
    ELSE Appended(MatchRecord(line))

\* The body of the for loop of search_code: empty lines are skipped, the
\* inner try skips a line on json.JSONDecodeError and KeyError, and the
\* dictionary display is evaluated key by key in source order.
ParseSearchLine(line) ==
    IF line.json = "blank" THEN Skip
    ELSE IF line.json = "invalid" THEN Skip
    ELSE IF line.json = "scalar" THEN Escapes("AttributeError")
    ELSE IF line.type # "match" THEN Skip
    ELSE IF "path" \notin line.present THEN Skip
    ELSE IF "line_number" \notin line.present THEN Skip
    ELSE IF "submatches" \notin line.present THEN Skip
    ELSE IF line.submatches = 0 THEN Escapes("IndexError")
    ELSE IF "lines" \notin line.present THEN Skip
    ELSE Appended(MatchRecord(line))

\* The for loop of search_code from line i on, matches holding the records
\* appended so far.
RECURSIVE CollectMatches(_, _, _)
CollectMatches(lines, i, matches) ==
    IF i > Len(lines) THEN [o |-> "ok", exc |-> "none", matches |-> matches]
    ELSE LET r == ParseSearchLine(lines[i])
         IN  IF r.o = "raise"
             THEN [o |-> "raise", exc |-> r.exc, matches |-> matches]
             ELSE CollectMatches(lines, i + 1, matches \o r.rec)

\* The rg command line of search_code
SearchCmd(query, file_pattern) ==
    <<"rg", "--json", "--type",
      IF file_pattern = "*.py" THEN "py" ELSE "all", query>>

\* What running rg may give: it exits having printed some lines, it times
\* out, or it cannot be started.
SearchOutcomes ==
    { Exited(0, lines, <<>>) :
        lines \in UNION {[1..n -> OutputLines] : n \in 0..MaxLines} }
    \cup {TimedOut, NotStarted("FileNotFoundError")}

\* search_code(query, file_pattern)
SearchCode(query, file_pattern, outcome) ==
    IF outcome.o = "timeout"
    THEN RList(<< [error |-> <<"Search timed out after 30 seconds">>] >>)
    ELSE IF outcome.o = "raise"
    THEN RList(<< [error |-> <<"Search failed: ", outcome.exc>>] >>)
    ELSE LET c == CollectMatches(outcome.stdout, 1, <<>>)
         IN  IF c.o = "raise"
             THEN RList(<< [error |-> <<"Search failed: ", c.exc>>] >>)
             ELSE RList(c.matches)

----------------------------------------------------------------------------
(* Inputs.                                                                 *)

LightspeedFoo   == <<"lightspeed", ".", "foo">>
OmniFluxBar     == <<"omni", ".", "flux", ".", "bar">>
LightspeedTools == <<"lightspeed", "_tools">>

\* The entry names under EXTENSIONS_ROOT the model looks at.
ExtNames == {LightspeedFoo, OmniFluxBar, LightspeedTools}

\* category arguments
Categories == {<<"lightspeed">>, <<"flux">>, <<"Flux">>}

\* description arguments
Descriptions == {<<"demo">>, <<"a ", Quote, "b", Quote>>}

\* test_type arguments
TestTypes == {<<"all">>, <<"unit">>, <<"e2e">>}

\* file_pattern arguments of search_code
FilePatterns == {"*.py", "*.toml"}

\* config arguments of run_build
BuildConfigs == {<<"release">>, <<"debug">>}

\* --repo-path: a checkout that has source/extensions, or some other directory
RepoPaths == {"checkout", "elsewhere"}

\* Dependency names a manifest found on disk may declare.
DepNames ==
    { <<"lightspeed", ".", "common">>,
      <<"lightspeed", "_tools">>,
      <<"omni", ".", "flux", ".", "utils", ".", "common">>,
      <<"omni", ".", "kit", ".", "usd">>,
      <<"omni", ".", "ui">> }

\* The dependency lists of at most MaxDeps distinct names.
DepLists ==
    UNION { {s \in [1..n -> DepNames] : \A i, j \in 1..n : i # j => s[i] # s[j]}
            : n \in 0..MaxDeps }

\* Manifests found on disk at startup.
ManifestWith(deps) ==
    << LTable(<<"package">>),
       LKV(<<"description">>, RawString(<<"existing">>)),
       LKV(<<"version">>, RawString(<<"2.0.0">>)),
       LTable(<<"dependencies">>) >>
    \o [i \in 1..Len(deps) |-> LKV(deps[i], RawInline)]

UnparseableManifest == << LTable(<<"package">>), LJunk >>

PackageNotTableManifest ==
    << LKV(<<"package">>, RawString(<<"x">>)),
       LTable(<<"dependencies">>),
       LKV(<<"omni", ".", "ui">>, RawInline) >>

DependenciesNotTableManifest ==
    << LKV(<<"dependencies">>, RawArray(<< <<"omni", ".", "ui">> >>)),
       LTable(<<"package">>),
       LKV(<<"version">>, RawString(<<"2.0.0">>)) >>

InitialDeps == << <<"omni", ".", "kit", ".", "usd">>, <<"lightspeed", ".", "common">> >>

ExistingExtension(manifest) ==
    Dir({<<"config">>, <<"docs">>}, {ConfigPath}, manifest)

\* What each name may be at startup.
InitialEntries(n) ==
    IF n = LightspeedFoo THEN {Absent, RegularFile}
    ELSE IF n = OmniFluxBar
    THEN { Absent,
           ExistingExtension(ManifestWith(InitialDeps)),
           ExistingExtension(UnparseableManifest),
           ExistingExtension(PackageNotTableManifest),
           ExistingExtension(DependenciesNotTableManifest) }
    ELSE {Absent, Dir({<<"tests">>}, {}, <<>>)}

----------------------------------------------------------------------------
(* The server process.  phase is "load" while the module body runs,       *)
(* "start" until main has checked the repository root, "serving" while     *)
(* mcp.run() dispatches tool calls and "exited" afterwards; exitCode is -1 *)
(* while the process runs.  call is the last invocation with its inputs    *)
(* and result is what it gave back.  REPO_ROOT and EXTENSIONS_ROOT are the *)
(* module globals, registered is what the decorators have registered with  *)
(* the FastMCP object, inflight holds the create_extension_template calls  *)
(* that run concurrently.                                                  *)

\* Path(__file__).parent, the value of REPO_ROOT before main runs
ModuleDir == "module_dir"

\* REPO_ROOT / "source" / "extensions"
ExtensionsRootOf(root) == <<root, "source", "extensions">>

\* (REPO_ROOT / "source" / "extensions").exists()
HasExtensionsDir(root) == root = "checkout"

\* The resources and tools the decorators of the module register.
Resources == {"repo://structure", "repo://build_commands"}

Tools ==
    { "list_extensions", "analyze_extension", "create_extension_template",
      "run_build", "run_tests", "format_code", "lint_code", "search_code",
      "get_extension_dependencies" }

\* The callers of concurrent create_extension_template invocations.
Callers == {1, 2}

\* A caller between calls, one that has passed validation and is about to
\* make filesystem call number next, and one whose call has returned.
\* wrote counts the filesystem calls of the caller that changed the tree.
NoArgs ==
    [ extension_name |-> <<>>, category |-> <<>>, description |-> <<>>,
      include_tests |-> FALSE, include_ui |-> FALSE ]

Idle == [pc |-> "idle", args |-> NoArgs, next |-> 0, wrote |-> 0, result |-> NoResult]

Running(args) ==
    [pc |-> "running", args |-> args, next |-> 1, wrote |-> 0, result |-> NoResult]

Returned(c, r) == [c EXCEPT !.pc = "done", !.result = r]

Started(files, scripts) ==
    /\ fs = files
    /\ testScripts = scripts
    /\ phase = "load"
    /\ exitCode = -1
    /\ call = [op |-> "none"]
    /\ result = NoResult
    /\ REPO_ROOT = ModuleDir
    /\ EXTENSIONS_ROOT = ExtensionsRootOf(ModuleDir)
    /\ registered = {}
    /\ inflight = [p \in Callers |-> Idle]

\* A checkout in which one of the two well-named extensions is still to be
\* created.
Init ==
    \E files \in [ExtNames -> UNION {InitialEntries(n) : n \in ExtNames}] :
        /\ \A n \in ExtNames : files[n] \in InitialEntries(n)
        /\ (files[LightspeedFoo] = Absent) # (files[OmniFluxBar] = Absent)
        /\ files[OmniFluxBar] \in {Absent, ExistingExtension(ManifestWith(InitialDeps))}
        /\ files[LightspeedTools] # Absent
        /\ Started(files, {})

\* The module body with search_code left undecorated.
load_module_SearchNotRegistered ==
    /\ phase = "load"
    /\ registered' = registered \cup Resources \cup (Tools \ {"search_code"})
    /\ phase' = "start"
    /\ call' = [op |-> "load_module"]
    /\ result' = NoResult
    /\ UNCHANGED <<fs, testScripts, exitCode, REPO_ROOT, EXTENSIONS_ROOT, inflight>>

\* The module body: every @mcp.resource and @mcp.tool decorator runs when
\* the module is loaded, before main is called.
load_module ==
    /\ phase = "load"
    /\ registered' = registered \cup Resources \cup Tools
    /\ phase' = "start"
    /\ call' = [op |-> "load_module"]
    /\ result' = NoResult
    /\ UNCHANGED <<fs, testScripts, exitCode, REPO_ROOT, EXTENSIONS_ROOT, inflight>>

\* main() without the check of source/extensions: the server is run on
\* whatever --repo-path names.
main_NoRootCheck ==
    /\ phase = "start"
    /\ \E repo_path \in RepoPaths :
         /\ REPO_ROOT' = repo_path
         /\ EXTENSIONS_ROOT' = ExtensionsRootOf(repo_path)
         /\ call' = [op |-> "main", repo_path |-> repo_path]
    /\ phase' = "serving"
    /\ exitCode' = exitCode
    /\ result' = NoResult
    /\ UNCHANGED <<fs, testScripts, registered, inflight>>

\* main(): resolve --repo-path into REPO_ROOT, refuse to start without
\* source/extensions, otherwise set EXTENSIONS_ROOT and enter mcp.run()
main ==
    /\ phase = "start"
    /\ \E repo_path \in RepoPaths :
         /\ REPO_ROOT' = repo_path
         /\ IF HasExtensionsDir(repo_path)
            THEN /\ EXTENSIONS_ROOT' = ExtensionsRootOf(repo_path)
                 /\ phase' = "serving"
                 /\ exitCode' = exitCode
            ELSE /\ EXTENSIONS_ROOT' = EXTENSIONS_ROOT
                 /\ phase' = "exited"
                 /\ exitCode' = 1
         /\ call' = [op |-> "main", repo_path |-> repo_path]
    /\ result' = NoResult
    /\ UNCHANGED <<fs, testScripts, registered, inflight>>

\* The exit status main gives when mcp.run() has ended: falling off the end
\* of main after a return, sys.exit(0) on KeyboardInterrupt, sys.exit(1) on
\* any other Exception.
ExitStatus_InterruptIsFailure(how) == IF how = "return" THEN 0 ELSE 1

ExitStatus(how) == IF how = "Exception" THEN 1 ELSE 0

\* mcp.run() ends: it returns, or KeyboardInterrupt or another exception
\* reaches the try block of main
mcp_run_ends ==
    /\ phase = "serving"
    /\ \E how \in {"return", "KeyboardInterrupt", "Exception"} :
         /\ exitCode' = ExitStatus(how)
         /\ call' = [op |-> "mcp_run_ends", how |-> how]
    /\ phase' = "exited"
    /\ result' = NoResult
    /\ UNCHANGED <<fs, testScripts, REPO_ROOT, EXTENSIONS_ROOT, registered, inflight>>

list_extensions ==
    /\ phase = "serving"
    /\ \E category \in Categories \cup {None} :
       \E order \in Orderings({n \in ExtNames : Exists(fs[n], <<>>)}) :
         /\ call' = [op |-> "list_extensions", category |-> category]
         /\ result' = ListExtensions(fs, category, order)
    /\ UNCHANGED <<fs, testScripts, phase, exitCode, REPO_ROOT, EXTENSIONS_ROOT, registered, inflight>>

analyze_extension ==
    /\ phase = "serving"
    /\ \E extension_name \in ExtNames :
         /\ call' = [op |-> "analyze_extension", extension_name |-> extension_name]
         /\ result' = AnalyzeExtension(fs, extension_name)
    /\ UNCHANGED <<fs, testScripts, phase, exitCode, REPO_ROOT, EXTENSIONS_ROOT, registered, inflight>>

create_extension_template ==
    /\ phase = "serving"
    /\ \E extension_name \in ExtNames, category \in Categories,
          description \in Descriptions, include_tests \in BOOLEAN, include_ui \in BOOLEAN :
       \E failAt \in IF ValidationError(fs[extension_name], extension_name, category) = <<>>
                     THEN 0..MaxFailStep ELSE {0} :
         LET r == CreateExtensionTemplate(fs[extension_name], extension_name, category,
                                          description, include_tests, include_ui, failAt)
         IN  /\ call' = [ op |-> "create_extension_template",
                          extension_name |-> extension_name,
                          category |-> category,
                          description |-> description,
                          include_tests |-> include_tests,
                          include_ui |-> include_ui,
                          failAt |-> failAt ]
             /\ fs' = [fs EXCEPT ![extension_name] = r.e]
             /\ result' = r.result
    /\ UNCHANGED <<testScripts, phase, exitCode, REPO_ROOT, EXTENSIONS_ROOT, registered, inflight>>

get_extension_dependencies ==
    /\ phase = "serving"
    /\ \E extension_name \in ExtNames :
         /\ call' = [op |-> "get_extension_dependencies", extension_name |-> extension_name]
         /\ result' = GetExtensionDependencies(fs, extension_name)
    /\ UNCHANGED <<fs, testScripts, phase, exitCode, REPO_ROOT, EXTENSIONS_ROOT, registered, inflight>>

run_build ==
    /\ phase = "serving"
    /\ \E config \in BuildConfigs, outcome \in ProcessOutcomes :
         /\ call' = [op |-> "run_build", config |-> config, outcome |-> outcome]
         /\ result' = RunBuild(config, outcome)
    /\ UNCHANGED <<fs, testScripts, phase, exitCode, REPO_ROOT, EXTENSIONS_ROOT, registered, inflight>>

run_tests ==
    /\ phase = "serving"
    /\ \E extension_name \in ExtNames \cup {None}, test_type \in TestTypes,
          outcome \in ProcessOutcomes :
         /\ call' = [ op |-> "run_tests", extension_name |-> extension_name,
                      test_type |-> test_type,
                      cmd |-> TestCmd(testScripts, extension_name, test_type),
                      outcome |-> outcome ]
         /\ result' = RunTests(testScripts, extension_name, test_type, outcome)
    /\ UNCHANGED <<fs, testScripts, phase, exitCode, REPO_ROOT, EXTENSIONS_ROOT, registered, inflight>>

format_code ==
    /\ phase = "serving"
    /\ \E outcome \in ProcessOutcomes :
         /\ call' = [op |-> "format_code", outcome |-> outcome]
         /\ result' = FormatCode(outcome)
    /\ UNCHANGED <<fs, testScripts, phase, exitCode, REPO_ROOT, EXTENSIONS_ROOT, registered, inflight>>

lint_code ==
    /\ phase = "serving"
    /\ \E outcome \in ProcessOutcomes :
         /\ call' = [op |-> "lint_code", outcome |-> outcome]
         /\ result' = LintCode(outcome)
    /\ UNCHANGED <<fs, testScripts, phase, exitCode, REPO_ROOT, EXTENSIONS_ROOT, registered, inflight>>

search_code ==
    /\ phase = "serving"
    /\ \E file_pattern \in FilePatterns, outcome \in SearchOutcomes :
         /\ call' = [ op |-> "search_code", query |-> "needle",
                      file_pattern |-> file_pattern,
                      cmd |-> SearchCmd("needle", file_pattern),
                      outcome |-> outcome ]
         /\ result' = SearchCode("needle", file_pattern, outcome)
    /\ UNCHANGED <<fs, testScripts, phase, exitCode, REPO_ROOT, EXTENSIONS_ROOT, registered, inflight>>

\* The registry reader, the dependency analyzer and the scaffolder.
Next ==
    \/ load_module
    \/ main
    \/ mcp_run_ends
    \/ list_extensions
    \/ analyze_extension
    \/ create_extension_template
    \/ get_extension_dependencies

Spec == Init /\ [][Next]_vars

\* The scaffolder in a checkout that already holds an extension directory
\* whose manifest has a [package] that is no table.
InitBeside ==
    Started([n \in ExtNames |->
               IF n = OmniFluxBar THEN ExistingExtension(PackageNotTableManifest)
               ELSE Absent],
            {})

SpecBeside == InitBeside /\ [][Next]_vars

\* The registry reader and the dependency analyzer on the checkouts a
\* server may be started in.
InitReader ==
    \E files \in [ExtNames -> UNION {InitialEntries(n) : n \in ExtNames}] :
        /\ \A n \in ExtNames : files[n] \in InitialEntries(n)
        /\ Started(files, {})

NextReader ==
    \/ load_module
    \/ main
    \/ mcp_run_ends
    \/ list_extensions
    \/ analyze_extension
    \/ get_extension_dependencies

SpecReader == InitReader /\ [][NextReader]_vars

\* The dependency analyzer on the manifests a checkout may hold.
InitDeps ==
    \E deps \in DepLists :
        Started([n \in ExtNames |->
                   IF n = OmniFluxBar THEN ExistingExtension(ManifestWith(deps)) ELSE Absent],
                {})

NextDeps ==
    \/ load_module
    \/ main
    \/ mcp_run_ends
    \/ get_extension_dependencies

SpecDeps == InitDeps /\ [][NextDeps]_vars

\* Two callers of create_extension_template whose calls are interleaved
\* filesystem call by filesystem call.  The first step of a call is its
\* validation, which ends with ext_path.exists().
create_extension_template_check(p) ==
    /\ phase = "serving"
    /\ inflight[p].pc = "idle"
    /\ \E include_tests \in BOOLEAN, include_ui \in BOOLEAN :
         LET args == [ extension_name |-> LightspeedFoo,
                       category       |-> <<"lightspeed">>,
                       description    |-> <<"demo">>,
                       include_tests  |-> include_tests,
                       include_ui     |-> include_ui ]
             err  == ValidationError(fs[LightspeedFoo], LightspeedFoo, <<"lightspeed">>)
         IN  inflight' = [inflight EXCEPT ![p] =
                            IF err # <<>>
                            THEN Returned(Running(args), ErrorDict(err))
                            ELSE Running(args)]
    /\ call' = [op |-> "create_extension_template_check", caller |-> p]
    /\ result' = inflight'[p].result
    /\ UNCHANGED <<fs, testScripts, phase, exitCode, REPO_ROOT, EXTENSIONS_ROOT, registered>>

\* The next filesystem call of the try block of caller p; the environment
\* may fail one of the first MaxFailStep calls; an exception ends the call
\* in the except clause, the last call ends it with the success result.
create_extension_template_step(p) ==
    /\ phase = "serving"
    /\ inflight[p].pc = "running"
    /\ LET c     == inflight[p]
           a     == c.args
           steps == CreateSteps(a.extension_name, a.category, a.description,
                                a.include_tests, a.include_ui)
           e     == fs[a.extension_name]
       IN  \E fails \in IF c.next <= MaxFailStep THEN BOOLEAN ELSE {FALSE} :
             LET r == IF fails THEN StepRaise(e, "OSError")
                      ELSE ApplyStep(e, steps[c.next])
                 stepped == [c EXCEPT !.next = @ + 1,
                                      !.wrote = IF r.e # e THEN @ + 1 ELSE @]
             IN  /\ fs' = [fs EXCEPT ![a.extension_name] = r.e]
                 /\ inflight' = [inflight EXCEPT ![p] =
                       IF ~r.ok
                       THEN Returned(c, ErrorDict(<<"Failed to create extension: ", r.exc>>))
                       ELSE IF c.next = Len(steps)
                       THEN Returned(stepped,
                              RDict([ success |-> TRUE,
                                      message |-> <<"Extension '">> \o a.extension_name
                                                  \o <<"' created successfully">>,
                                      path |-> PathStr(a.extension_name),
                                      files_created |->
                                        FilesCreated(a.extension_name, a.include_tests) ]))
                       ELSE stepped]
    /\ call' = [op |-> "create_extension_template_step", caller |-> p]
    /\ result' = inflight'[p].result
    /\ UNCHANGED <<testScripts, phase, exitCode, REPO_ROOT, EXTENSIONS_ROOT, registered>>

InitRace == Started([n \in ExtNames |-> Absent], {})

NextRace ==
    \/ load_module
    \/ main
    \/ mcp_run_ends
    \/ \E p \in Callers : create_extension_template_check(p)
    \/ \E p \in Callers : create_extension_template_step(p)

SpecRace == InitRace /\ [][NextRace]_vars

\* The process runner: no extension on disk, a test script for some names.
InitRunner ==
    \E scripts \in {{}, {LightspeedFoo}} :
        Started([n \in ExtNames |-> Absent], scripts)

NextRunner ==
    \/ load_module
    \/ main
    \/ mcp_run_ends
    \/ run_build
    \/ run_tests
    \/ format_code
    \/ lint_code
    \/ search_code

SpecRunner == InitRunner /\ [][NextRunner]_vars

----------------------------------------------------------------------------
(* Properties of the scaffolder.                                           *)

IsCreate(c)  == c.op = "create_extension_template"
IsSuccess(r) == r.kind = "dict" /\ "success" \in DOMAIN r.value

\* The three rejections of a scaffold request, stated on the request and
\* the directory as it is before the call.
Rejected(files, c) ==
    \/ c.category \notin {<<"lightspeed">>, <<"flux">>}
    \/ c.category = <<"lightspeed">> /\ ~StartsWith(c.extension_name, <<"lightspeed", ".">>)
    \/ c.category = <<"flux">> /\ ~StartsWith(c.extension_name, <<"omni", ".", "flux", ".">>)
    \/ files[c.extension_name].kind # "absent"

\* C1: a create_extension_template call that validation rejects (category
\* not lightspeed or flux, name without the prefix of its category, target
\* already there) returns {error} and leaves every entry under the
\* extensions root exactly as it was.
C1_RejectedLeavesNoTrace ==
    [][ (IsCreate(call') /\ Rejected(fs, call')) => (IsError(result') /\ fs' = fs) ]_vars

\* C1 witness: a lightspeed request for a name without the "lightspeed."
\* prefix was answered with {error} and there is no entry of that name.
C1_Witness ==
    /\ IsCreate(call)
    /\ call.category = <<"lightspeed">>
    /\ ~StartsWith(call.extension_name, <<"lightspeed", ".">>)
    /\ IsError(result)
    /\ fs[call.extension_name] = Absent

\* The files of a complete scaffold are all on disk.
FullTree(e, c) ==
    /\ e.kind = "dir"
    /\ Range(FilesCreated(c.extension_name, c.include_tests)) \subseteq e.files
    /\ {<<"config">>, <<"data">>, <<"docs">>} \subseteq e.dirs

\* C2: every create_extension_template call either returns success with the
\* full tree on disk, or returns {error} and has changed nothing; a failure
\* part-way through creation leaves no partial tree for that name.
C2_AllOrNothing ==
    [][ IsCreate(call') =>
          \/ IsSuccess(result') /\ FullTree(fs'[call'.extension_name], call')
          \/ IsError(result') /\ fs' = fs ]_vars

\* C3: after a successful create_extension_template the returned
\* files_created list is exactly the set of files under the new extension
\* directory, the __init__.py namespace markers included.
C3_FilesCreatedExact ==
    (IsCreate(call) /\ IsSuccess(result))
        => Range(result.value.files_created) = fs[call.extension_name].files

\* The dependency names the scaffolder is said to write for a request.
WrittenDependencies(c) ==
    << <<"omni", ".", "kit", ".", "usd">>, <<"omni", ".", "ui">> >>
    \o (IF c.category = <<"lightspeed">>
        THEN << <<"lightspeed", ".", "common">> >>
        ELSE << <<"omni", ".", "flux", ".", "utils", ".", "common">> >>)
    \o (IF c.include_ui THEN << <<"omni", ".", "ui">> >> ELSE <<>>)
    \o (IF c.include_tests THEN << <<"omni", ".", "kit", ".", "test">> >> ELSE <<>>)

\* C4: after every successful create_extension_template, analyze_extension
\* on the same name reports no config_error and reports in "dependencies"
\* the dependency names the scaffolder wrote (UI toolkit, the category's
\* common utility, the explicit UI entry when include_ui, the test runner
\* when include_tests).
C4_RoundTrip ==
    (IsCreate(call) /\ IsSuccess(result))
        => LET a == AnalyzeExtension(fs, call.extension_name)
           IN  /\ a.kind = "dict"
               /\ "config_error" \notin DOMAIN a.value
               /\ a.value.dependencies = WrittenDependencies(call)

\* C5: once an entry for a name exists under the extensions root, a
\* create_extension_template call for that name returns {error} and changes
\* nothing; in particular the second of two identical calls fails and
\* leaves the tree of the first as it is.
C5_NoOverwrite ==
    [][ (IsCreate(call') /\ fs[call'.extension_name] # Absent)
          => (IsError(result') /\ fs' = fs) ]_vars

\* C5 witness: the second of two identical calls was answered "already
\* exists" and the tree written by the first is on disk.
C5_Witness ==
    /\ IsCreate(call)
    /\ IsError(result)
    /\ result.value.error = <<"Extension '">> \o call.extension_name \o <<"' already exists">>
    /\ FullTree(fs[call.extension_name], call)
    /\ fs[call.extension_name].manifest =
         TomlContent(call.extension_name, call.category, call.description,
                     call.include_tests, call.include_ui)

----------------------------------------------------------------------------
(* Properties of the registry reader.                                      *)

IsList(c) == c.op = "list_extensions"

DirNames(files) == {n \in ExtNames : files[n].kind = "dir"}

ListedNames(r) == {r.value[i].name : i \in 1..Len(r.value)}

\* C6: list_extensions("lightspeed") returns only names of the form
\* lightspeed.*, list_extensions("flux") only names of the form omni.flux.*,
\* and list_extensions(None) returns exactly one descriptor per directory
\* under the extensions root.
C6_FilterMatchesPrefixConvention ==
    (IsList(call) /\ result.kind = "list")
        => /\ call.category = <<"lightspeed">>
                => \A n \in ListedNames(result) : StartsWith(n, <<"lightspeed", ".">>)
           /\ call.category = <<"flux">>
                => \A n \in ListedNames(result) : StartsWith(n, <<"omni", ".", "flux", ".">>)
           /\ call.category = None
                => /\ ListedNames(result) = DirNames(fs)
                   /\ Len(result.value) = Cardinality(DirNames(fs))

\* The manifest of the entry is absent, unparseable or has a "package"
\* entry that is no table.
ManifestUnusable(e) ==
    \/ ConfigPath \notin e.files
    \/ ~tomllib_load(e.manifest).ok
    \/ Get(tomllib_load(e.manifest).top, <<"package">>, VTable(<<>>)).t # "table"

\* C7: whatever the manifests hold, list_extensions returns a descriptor
\* for every directory that passes the filter, with empty description and
\* version for the directories whose manifest is absent, unparseable or of
\* an unexpected shape.
C7_ListingDegradesPerItem ==
    IsList(call)
        => /\ result.kind = "list"
           /\ ListedNames(result) = {n \in DirNames(fs) : PassesFilter(n, call.category)}
           /\ \A i \in 1..Len(result.value) :
                ManifestUnusable(fs[result.value[i].name])
                    => /\ result.value[i].description = VStr(<<>>)
                       /\ result.value[i].version = VStr(<<>>)

\* C8: no tool operation lets an exception escape: every call returns a
\* value.
C8_NoExceptionEscapes == result.kind # "raised"

----------------------------------------------------------------------------
(* Properties of the dependency analyzer.                                  *)

\* C9: in every analysis get_extension_dependencies returns, each
\* dependency name is in exactly one of the four buckets, the buckets
\* together hold exactly the names of direct_dependencies, and their
\* lengths add up to total_count.
C9_BucketsPartition ==
    (call.op = "get_extension_dependencies" /\ result.kind = "dict" /\ ~IsError(result))
        => LET a == result.value.analysis
               buckets == <<a.lightspeed_deps, a.flux_deps, a.kit_deps, a.other_deps>>
               Places(d) == UNION { {<<b, i>> : i \in {j \in 1..Len(buckets[b]) : buckets[b][j] = d}}
                                    : b \in 1..Len(buckets) }
           IN  /\ \A d \in Range(a.direct_dependencies) : Cardinality(Places(d)) = 1
               /\ UNION {Range(buckets[b]) : b \in 1..Len(buckets)} = Range(a.direct_dependencies)
               /\ Len(a.lightspeed_deps) + Len(a.flux_deps) + Len(a.kit_deps) + Len(a.other_deps)
                    = a.total_count
               /\ Len(a.direct_dependencies) = a.total_count

\* C9 witness: an analysis of a manifest with a lightspeed.* dependency
\* and a dependency named lightspeed_tools, which is in the residual bucket.
C9_Witness ==
    /\ call.op = "get_extension_dependencies"
    /\ result.kind = "dict"
    /\ ~IsError(result)
    /\ result.value.analysis.lightspeed_deps = << <<"lightspeed", ".", "common">> >>
    /\ result.value.analysis.other_deps = << <<"lightspeed", "_tools">> >>

----------------------------------------------------------------------------
(* Properties of the process runner.                                       *)

RunnerOps == {"run_build", "run_tests", "format_code", "lint_code"}

\* The error texts that report a timeout.
TimeoutErrors ==
    { <<"Build timed out after 5 minutes">>,
      <<"Tests timed out after 10 minutes">>,
      <<"Code formatting timed out after 2 minutes">>,
      <<"Code linting timed out after 2 minutes">> }

\* subprocess.run was reached (run_tests returns early without a script).
ProcessStarted(c) == c.op = "run_tests" => c.cmd # <<>>

\* C10: for each runner operation, a process that exits yields a Process
\* Invocation Result with the exit code and the captured output whose
\* success flag is true exactly when the exit code is 0; a timeout yields a
\* timeout error, which is no Process Invocation Result and is not the error
\* of any other invocation failure.
C10_OutcomesDistinguishable ==
    (call.op \in RunnerOps)
        => IF ~ProcessStarted(call)
           THEN IsError(result) /\ result.value.error \notin TimeoutErrors
           ELSE /\ call.outcome.o = "exit"
                    => /\ result.kind = "dict"
                       /\ ~IsError(result)
                       /\ result.value.success = (call.outcome.returncode = 0)
                       /\ result.value.returncode = call.outcome.returncode
                       /\ result.value.stdout = call.outcome.stdout
                       /\ result.value.stderr = call.outcome.stderr
                /\ call.outcome.o = "timeout"
                    => /\ IsError(result)
                       /\ DOMAIN result.value = {"error"}
                       /\ result.value.error \in TimeoutErrors
                /\ call.outcome.o = "raise"
                    => /\ IsError(result)
                       /\ result.value.error \notin TimeoutErrors

\* C10 witness: a per-extension test run whose script exists timed out and
\* the call returned the timeout error.
C10_Witness ==
    /\ call.op = "run_tests"
    /\ call.cmd # <<>>
    /\ call.extension_name # None
    /\ call.outcome.o = "timeout"
    /\ result = ErrorDict(<<"Tests timed out after 10 minutes">>)

----------------------------------------------------------------------------
(* Properties of the server process.                                       *)

HasExited == phase = "exited"

InvalidRoot == call.op = "main" /\ ~HasExtensionsDir(call.repo_path)

EndedBy(how) == call.op = "mcp_run_ends" /\ call.how = how

\* C11 as stated: the process exits with 0 only on a normal return of the
\* server, and with 1 on an invalid repository root, on an unhandled
\* exception while running the server and on a user interrupt.
C11_InterruptExitsOne ==
    HasExited
        => /\ (exitCode = 0) => EndedBy("return")
           /\ (InvalidRoot \/ EndedBy("Exception") \/ EndedBy("KeyboardInterrupt"))
                  => exitCode = 1

\* C11, amended: the process exits with 0 exactly when the server returned
\* or was interrupted by the user, and with 1 on an invalid repository root
\* and on an unhandled exception while running the server.
C11_ExitCodes ==
    HasExited
        => /\ (exitCode = 0) <=> (EndedBy("return") \/ EndedBy("KeyboardInterrupt"))
           /\ (exitCode = 1) <=> (InvalidRoot \/ EndedBy("Exception"))
           /\ exitCode \in {0, 1}

\* C11 witness: the server was interrupted by the user and the process has
\* exited with 0.
C11_Witness ==
    HasExited /\ EndedBy("KeyboardInterrupt") /\ exitCode = 0

RootsValid ==
    /\ HasExtensionsDir(REPO_ROOT)
    /\ EXTENSIONS_ROOT = ExtensionsRootOf(REPO_ROOT)

\* C12: the server serves tool invocations only after the repository root
\* of the command line has been checked to contain source/extensions and
\* EXTENSIONS_ROOT has been set from it; with the subdirectory missing the
\* process exits with 1 and nothing runs afterwards, so that no tool runs
\* against an invalid root; once serving, no step changes REPO_ROOT or
\* EXTENSIONS_ROOT.
C12_StartupOrdering ==
    /\ [](phase = "serving" => RootsValid)
    /\ [](call.op \in Tools => RootsValid)
    /\ [](InvalidRoot => phase = "exited" /\ exitCode = 1)
    /\ [][phase # "exited"]_vars
    /\ [][call'.op \in Tools => phase = "serving"]_vars
    /\ [][phase = "serving" => UNCHANGED <<REPO_ROOT, EXTENSIONS_ROOT>>]_vars

\* C12 witness: an extension has been analyzed by a server whose roots were
\* set from a checked repository root.
C12_Witness ==
    /\ call.op = "analyze_extension"
    /\ result.kind = "dict"
    /\ phase = "serving"
    /\ REPO_ROOT = "checkout"
    /\ EXTENSIONS_ROOT = ExtensionsRootOf("checkout")

ExpectedRegistrations ==
    { "repo://structure", "repo://build_commands",
      "list_extensions", "analyze_extension", "create_extension_template",
      "run_build", "run_tests", "format_code", "lint_code", "search_code",
      "get_extension_dependencies" }

\* C15: once the module is loaded, and so before main runs, exactly the two
\* resources repo://structure and repo://build_commands and the nine tools
\* are registered, and no later step changes the registered set.
C15_Registrations ==
    /\ [](phase # "load" => registered = ExpectedRegistrations)
    /\ [](Cardinality(Resources) = 2 /\ Cardinality(Tools) = 9)
    /\ [][phase # "load" => registered' = registered]_vars

\* C15 witness: main has not run yet and the eleven registrations are there.
C15_Witness ==
    /\ phase = "start"
    /\ call.op = "load_module"
    /\ Cardinality(registered) = 11

----------------------------------------------------------------------------
(* Properties of analyze_extension.                                        *)

IsAnalyze(c) == c.op = "analyze_extension"

ManifestFailsToParse(e) ==
    e.kind = "dir" /\ ConfigPath \in e.files /\ ~tomllib_load(e.manifest).ok

\* C13: analyze_extension of a name with no entry under the extensions root
\* returns the {error} 'not found' result; of an existing extension whose
\* manifest fails to parse it returns a full descriptor with config_error
\* set, metadata and dependencies empty, and structure, tests and files
\* reported as they are on disk.
C13_AnalyzeDegrades ==
    IsAnalyze(call)
        => LET e == fs[call.extension_name]
           IN  /\ e.kind = "absent"
                    => /\ IsError(result)
                       /\ result.value.error =
                            <<"Extension '">> \o call.extension_name \o <<"' not found">>
               /\ ManifestFailsToParse(e)
                    => /\ result.kind = "dict"
                       /\ ~IsError(result)
                       /\ "config_error" \in DOMAIN result.value
                       /\ result.value.name = call.extension_name
                       /\ result.value.metadata = VTable(<<>>)
                       /\ result.value.dependencies = <<>>
                       /\ DOMAIN result.value.structure = Children(e)
                       /\ \A p \in Children(e) :
                            result.value.structure[p] =
                              IF p \in e.dirs THEN "directory" ELSE "file"
                       /\ result.value.tests.has_tests = (<<"tests">> \in e.dirs)
                       /\ result.value.files = rglob_py(e, <<>>)

\* C13 witness: an extension directory with an unparseable manifest was
\* analyzed and the descriptor carries the parse failure.
C13_Witness ==
    /\ IsAnalyze(call)
    /\ ManifestFailsToParse(fs[call.extension_name])
    /\ result.kind = "dict"
    /\ "config_error" \in DOMAIN result.value
    /\ DOMAIN result.value.structure # {}

----------------------------------------------------------------------------
(* Properties of search_code.                                              *)

IsSearch(c) == c.op = "search_code"

SingleErrorRecord(r) ==
    r.kind = "list" /\ Len(r.value) = 1 /\ "error" \in DOMAIN r.value[1]

\* A line that is not empty and cannot be parsed into a match record:
\* invalid JSON, or a match object that lacks an expected field.
InvalidJson(line) == line.json = "invalid"

MatchLacksKey(line) ==
    line.json = "object" /\ line.type = "match" /\ line.present # MatchKeys

\* A line on which parsing fails in another way: the JSON value is not an
\* object, or the match has no submatch.
OtherParseFailure(line) ==
    \/ line.json = "scalar"
    \/ line.json = "object" /\ line.type = "match" /\ line.present = MatchKeys
       /\ line.submatches = 0

GoodMatch(line) ==
    line.json = "object" /\ line.type = "match" /\ line.present = MatchKeys
    /\ line.submatches > 0

Printed(c) == {c.outcome.stdout[i] : i \in 1..Len(c.outcome.stdout)}

\* C14 as stated: when rg cannot be invoked, times out, or prints a line
\* that is invalid JSON or a match object missing an expected field, the
\* result is a list of exactly one {error} record.
C14_AnyFailureIsOneError ==
    ( /\ IsSearch(call)
      /\ \/ call.outcome.o \in {"raise", "timeout"}
         \/ \E line \in Printed(call) : InvalidJson(line) \/ MatchLacksKey(line) )
        => SingleErrorRecord(result)

\* C14, amended: when rg cannot be invoked or times out, or a line makes
\* parsing fail other than by invalid JSON or a missing key, the result is
\* a list of exactly one {error} record; otherwise lines that are invalid
\* JSON or match objects lacking a key are skipped and the result lists, in
\* output order, one record per remaining match line.
C14_SkipsUnparseableLines ==
    IsSearch(call)
        => LET out == call.outcome.stdout
               good == {i \in 1..Len(out) : GoodMatch(out[i])}
           IN  IF \/ call.outcome.o \in {"raise", "timeout"}
                  \/ \E line \in Printed(call) : OtherParseFailure(line)
               THEN SingleErrorRecord(result)
               ELSE /\ result.kind = "list"
                    /\ Len(result.value) = Cardinality(good)
                    /\ \A k \in 1..Len(result.value) :
                         /\ "error" \notin DOMAIN result.value[k]
                         /\ \E i \in good :
                              /\ Cardinality({j \in good : j <= i}) = k
                              /\ result.value[k].file = out[i].file

\* C14 witness: rg printed a line of invalid JSON and a match; the result
\* is the one match.
C14_Witness ==
    /\ IsSearch(call)
    /\ call.outcome.o = "exit"
    /\ \E line \in Printed(call) : InvalidJson(line)
    /\ \E line \in Printed(call) : GoodMatch(line)
    /\ result.kind = "list"
    /\ Len(result.value) = 1
    /\ "file" \in DOMAIN result.value[1]

----------------------------------------------------------------------------
(* Further properties of the scaffolder.                                   *)

RecognizedCategory(c) == c.category \in {<<"lightspeed">>, <<"flux">>}

PrefixOf(category) ==
    IF category = <<"lightspeed">> THEN <<"lightspeed", ".">>
    ELSE <<"omni", ".", "flux", ".">>

\* C16: a create_extension_template request with an unrecognized category
\* gets the category error, whatever its name and whether or not the
\* directory exists; a request with a recognized category and a name
\* without that category's prefix gets the prefix error, whether or not the
\* directory exists.
C16_FirstFailingRuleWins ==
    IsCreate(call)
        => /\ ~RecognizedCategory(call)
                => result = ErrorDict(<<"Category must be 'lightspeed' or 'flux'">>)
           /\ ( /\ RecognizedCategory(call)
                /\ ~StartsWith(call.extension_name, PrefixOf(call.category)) )
                => result = ErrorDict(IF call.category = <<"lightspeed">>
                                      THEN <<"Lightspeed extensions must start with 'lightspeed.'">>
                                      ELSE <<"Flux extensions must start with 'omni.flux.'">>)

\* C16 witness: a request for a directory that exists, with a recognized
\* category and a name without its prefix, was answered with the prefix
\* error.
C16_Witness ==
    /\ IsCreate(call)
    /\ RecognizedCategory(call)
    /\ ~StartsWith(call.extension_name, PrefixOf(call.category))
    /\ fs[call.extension_name].kind = "dir"
    /\ IsError(result)
    /\ result.value.error # <<"Extension '">> \o call.extension_name \o <<"' already exists">>

----------------------------------------------------------------------------
(* Properties of run_tests.                                                *)

IsRunTests(c) == c.op = "run_tests"

\* C17: run_tests with an extension name whose test script is missing
\* returns {error} and launches nothing; with the script there, the command
\* is the script alone for test_type all and the script followed by one
\* filter argument naming the extension and the test type for unit and
\* e2e; without an extension name the command is the full test run for
\* every test_type.
C17_TestCommand ==
    IsRunTests(call)
        => IF call.extension_name = None
           THEN call.cmd = << <<"repo.sh">>, <<"test">> >>
           ELSE IF call.extension_name \notin testScripts
           THEN /\ call.cmd = <<>>
                /\ result = ErrorDict(<<"Test script for '">> \o call.extension_name
                                      \o <<"' not found">>)
           ELSE /\ call.cmd[1] = <<"_build/windows-x86_64/release/tests-">>
                                   \o call.extension_name \o <<".sh">>
                /\ call.test_type = <<"all">> => Len(call.cmd) = 1
                /\ call.test_type \in {<<"unit">>, <<"e2e">>}
                     => /\ Len(call.cmd) = 2
                        /\ call.cmd[2] = <<"--/exts/omni.kit.test/runTestsFilter='">>
                                         \o call.extension_name \o <<".*.tests.">>
                                         \o call.test_type \o <<".*'">>
                /\ call.outcome.o = "exit" => result.value.command = Join(call.cmd, " ")

\* C17 witness: the unit tests of an extension whose script exists were
\* run with a two-word command line.
C17_Witness ==
    /\ IsRunTests(call)
    /\ call.extension_name \in testScripts
    /\ call.test_type = <<"unit">>
    /\ Len(call.cmd) = 2
    /\ call.outcome.o = "exit"
    /\ ~IsError(result)

TestsTree == {<<"tests">>, <<"tests", "/", "unit">>, <<"tests", "/", "e2e">>}

TestStub == <<"tests", "/", "unit", "/", "test_extension.py">>

\* The entry-point stub at the end of the directory chain of a dotted name.
EntryPoint(extension_name) ==
    LET parts == Split(extension_name, ".")
    IN  PathJoin(CodePath(parts, Len(parts)), <<"extension.py">>)

\* The tree a successful request c must have left in entry e.
TreeAsRequested(e, c) ==
    /\ e.kind = "dir"
    /\ IF c.include_tests
       THEN TestsTree \subseteq e.dirs /\ TestStub \in e.files
       ELSE /\ \A d \in e.dirs : d[1] # "tests"
            /\ \A f \in e.files : f[1] # "tests"
    /\ { ConfigPath, <<"docs", "/", "README.md">>, <<"docs", "/", "CHANGELOG.md">>,
         <<"premake5.lua">>, EntryPoint(c.extension_name) } \subseteq e.files

\* The listing r has a descriptor for request c that reports its tests and
\* docs.
ReportsTestsAndDocs(r, c) ==
    /\ r.kind = "list"
    /\ \E i \in 1..Len(r.value) :
         /\ r.value[i].name = c.extension_name
         /\ r.value[i].has_tests = c.include_tests
         /\ r.value[i].has_docs

\* C18: after a successful create_extension_template the new directory has
\* the tests subtree with its stub exactly when include_tests was set and
\* always has the manifest, the docs README and changelog, the build stub
\* and the entry-point stub; a list_extensions that follows reports
\* has_tests equal to include_tests and has_docs true for the extension.
C18_TestsIffRequested ==
    [][ /\ (IsCreate(call') /\ IsSuccess(result'))
            => TreeAsRequested(fs'[call'.extension_name], call')
        /\ (IsCreate(call) /\ IsSuccess(result) /\ IsList(call') /\ call'.category = None)
            => ReportsTestsAndDocs(result', call) ]_vars

\* Two key/value lines of one table of manifest m carry the same key.
DuplicateKey(m) ==
    \E i, j \in 1..Len(m) :
        /\ i < j
        /\ m[i].l = "kv" /\ m[j].l = "kv"
        /\ m[i].key = m[j].key
        /\ \A k \in i..j : m[k].l = "kv"

\* The listing r has a descriptor for request c with the description that
\* was asked for and version 1.0.0.
ReportsDescription(r, c) ==
    /\ r.kind = "list"
    /\ \E i \in 1..Len(r.value) :
         /\ r.value[i].name = c.extension_name
         /\ r.value[i].description = VStr(c.description)
         /\ r.value[i].version = VStr(<<"1.0.0">>)

\* A request whose description is plain text, without a quote character.
PlainCreate(c) ==
    IsCreate(c) /\ \A i \in 1..Len(c.description) : c.description[i] # Quote

\* C20: the manifest a successful create_extension_template writes for a
\* plain description has no key twice in a table and parses, whatever the
\* category, include_tests and include_ui; a list_extensions that follows
\* reports the requested description and version 1.0.0 for the new
\* extension, and a get_extension_dependencies that follows returns an
\* analysis, not an {error}.
C20_WrittenManifestReadable ==
    [][ /\ (PlainCreate(call') /\ IsSuccess(result'))
            => LET m == fs'[call'.extension_name].manifest
               IN  ~DuplicateKey(m) /\ tomllib_load(m).ok
        /\ (PlainCreate(call) /\ IsSuccess(result) /\ IsList(call') /\ call'.category = None)
            => ReportsDescription(result', call)
        /\ ( /\ PlainCreate(call) /\ IsSuccess(result)
             /\ call'.op = "get_extension_dependencies"
             /\ call'.extension_name = call.extension_name )
            => ~IsError(result') /\ "analysis" \in DOMAIN result'.value ]_vars

----------------------------------------------------------------------------
(* Two concurrent create_extension_template calls for one name.            *)

Succeeded(c) == c.pc = "done" /\ IsSuccess(c.result)

\* C19: in every interleaving of two create_extension_template calls for
\* the same valid name, at most one returns success; the other one has
\* changed nothing in the tree and, once it has returned, has returned
\* {error}.
C19_AtMostOneSucceeds ==
    \A p, q \in Callers :
        (p # q /\ Succeeded(inflight[p]))
            => /\ ~Succeeded(inflight[q])
               /\ inflight[q].wrote = 0
               /\ inflight[q].pc = "done" => IsError(inflight[q].result)

\* C19 witness: both calls passed the existence check before either made
\* the directory; one has succeeded and the other has failed on mkdir.
C19_Witness ==
    \E p, q \in Callers :
        /\ p # q
        /\ Succeeded(inflight[p])
        /\ inflight[q].pc = "done"
        /\ inflight[q].result = ErrorDict(<<"Failed to create extension: ", "FileExistsError">>)

====
